---- MODULE Spec2Model ----
(***************************************************************************)
(* A model of two native components of libjitsi:                           *)
(*                                                                         *)
(*   - the DirectShow capture device manager                               *)
(*     (src/native/windows/directshow/DSManager.cpp), and                  *)
(*   - the CoreAudio JNI utility layer                                     *)
(*     (src/native/macosx/coreaudio/maccoreaudio_util.c).                  *)
(*                                                                         *)
(* Each exported function is one action.  What a function does to the      *)
(* outside world (COM reference counting, object construction and          *)
(* destruction, logger calls, JNI calls) is recorded, in program order, in *)
(* an event trace of the last call, so that ordering and counting          *)
(* properties are state predicates.                                        *)
(***************************************************************************)
EXTENDS Integers, Sequences, FiniteSets, TLC

VARIABLES
    \* ---- DSManager.cpp ----
    platform,       \* the monikers of the video input device category, in the
                    \* order IEnumMoniker::Next yields them
    mgr,            \* lifetime of the DSManager object: "unborn", "alive", "dead"
    m_devices,      \* DSManager::m_devices: sequence of DSCaptureDevice* (heap ids)
    coUninitialize, \* DSManager::_coUninitialize
    comInits,       \* successful CoInitializeEx calls not balanced by CoUninitialize
    heap,           \* the DSCaptureDevice objects constructed and not deleted:
                    \* address |-> [moniker, bound, name, path], the moniker
                    \* the object was made for, whether its initDevice()
                    \* succeeded, and the two strings it was made from
    doubleFree,     \* some delete was applied to an object that was not live
    enumRes,        \* how far the last enumeration pass got creating its enumerators
    dsOp,           \* the last DSManager operation
    devicesBefore,  \* m_devices when that operation began
    dsTrace,        \* events of the last DSManager operation
    returned,       \* the list the last operation handed out, when it was getDevices()
    \* ---- maccoreaudio_util.c ----
    MacCoreaudio_VM,                             \* "NULL" or "vm"
    MacCoreaudio_devicesChangedCallbackClass,    \* 0 (NULL) or a global reference
    MacCoreaudio_devicesChangedCallbackMethodID, \* 0 (NULL) or 1 (the method id)
    attached,       \* JVM: which native threads are attached to the runtime
    globalRefs,     \* JVM: the global references created and not deleted
    listeners,      \* CoreAudio: device-change listeners registered by device.c
    crashed,        \* the process died in a call whose behaviour is undefined
    macOp,          \* the last exported function called
    macThread,      \* the thread it was called on
    attachedBefore, \* whether that thread was attached when it was called
    classBefore,    \* MacCoreaudio_devicesChangedCallbackClass when it was called
    macTrace,       \* events of that call
    relay,          \* buffers of that call, when it was MacCoreaudio_callbackMethod
    \* ---- DSManager.cpp, one thread in initCaptureDevices() while another
    \*      is in getDevices() ----
    wPc,            \* where the thread in initCaptureDevices() stands
    wIdx,           \* the list element or moniker it is at
    wOutcome,       \* what its CoCreateInstance and CreateClassEnumerator answer
    wAfter,         \* the list the pass holds once it has returned
    rPc,            \* where the thread in getDevices() stands
    rIdx,           \* the list node its copy is at
    rCopy,          \* the nodes copied so far
    rSeen,          \* the complete lists that m_devices held during the call
    rDangling,      \* the list was cleared under the copy's iterator
    raceCrashed,    \* the copy read a freed node and the process died
    \* ---- maccoreaudio_util.c, a device-change event handled on the native
    \*      thread while the java thread frees the hotplug or unloads ----
    hPc,            \* where MacCoreaudio_devicesChangedCallbackMethod stands
    hEnv,           \* its locals envAttached and shouldDetach
    hClass,         \* its local class
    hMethodID,      \* its local methodID
    hStale,         \* it invoked the callback through a deleted global reference
    hNullDeref,     \* it dereferenced MacCoreaudio_VM when it was NULL
    uPc,            \* where MacCoreaudio_freeHotplug or JNI_OnUnload stands
    uOp             \* which of the two it is

dsVars == <<platform, mgr, m_devices, coUninitialize, comInits, heap,
            doubleFree, enumRes, dsOp, devicesBefore, dsTrace, returned>>

macVars == <<MacCoreaudio_VM, MacCoreaudio_devicesChangedCallbackClass,
             MacCoreaudio_devicesChangedCallbackMethodID, attached, globalRefs,
             listeners, crashed, macOp, macThread, attachedBefore, classBefore,
             macTrace, relay>>

dsRaceVars == <<wPc, wIdx, wOutcome, wAfter, rPc, rIdx, rCopy, rSeen, rDangling,
                raceCrashed>>

macRaceVars == <<hPc, hEnv, hClass, hMethodID, hStale, hNullDeref, uPc, uOp>>

raceVars == <<dsRaceVars, macRaceVars>>

vars == <<dsVars, macVars, raceVars>>

----------------------------------------------------------------------------
(* Bounds *)

\* longest list of monikers the platform registers
MaxCand == 3
\* most global references the runtime grants before NewGlobalRef answers NULL
MaxRefs == 2
\* longest native buffer handed to the callback relay
MaxLen == 2
\* longest list of monikers when two threads share the manager
MaxRaceCand == 2

----------------------------------------------------------------------------
(* Generic helpers *)

Range(s) == {s[i] : i \in 1..Len(s)}

\* the indices of s holding e
Places(s, e) == {i \in 1..Len(s) : s[i] = e}

Count(s, e) == Cardinality(Places(s, e))

SeqsUpTo(S, n) == UNION {[1..k -> S] : k \in 0..n}

\* the subsequence of s at the indices satisfying Keep
RECURSIVE SelectIdx(_, _, _)
SelectIdx(s, Keep(_), i) ==
    IF i > Len(s) THEN <<>>
    ELSE (IF Keep(i) THEN <<i>> ELSE <<>>) \o SelectIdx(s, Keep, i + 1)

----------------------------------------------------------------------------
(* DSManager.cpp : the platform                                            *)

\* One moniker of the video input device category, described by what each
\* call the enumeration makes on it answers.  A field is TRUE when the call
\* is answered with success; calls the loop never reaches for a moniker have
\* no answer and are kept FALSE.
\*   bto  : moniker->BindToObject(IID_IBaseFilter) succeeds
\*   vfw  : cp->QueryInterface(IID_IAMVfwCaptureDialogs) succeeds and yields
\*          the interface (a legacy Video for Windows device)
\*   bag  : moniker->BindToStorage(IID_IPropertyBag) succeeds
\*   name : propertyBag->Read(L"FriendlyName") succeeds
\*   path : propertyBag->Read(L"DevicePath") succeeds
\*   init : captureDevice->initDevice(moniker) succeeds
\*   empty : which of the two strings read is the empty string: "none",
\*           "name" or "path".  The strings are stored nowhere but in the
\*           record, and a record whose initDevice() fails is deleted within
\*           the iteration, so the answer is kept for the monikers whose
\*           initDevice() succeeds and is "none" for the others.
Candidate ==
    {c \in [bto : BOOLEAN, vfw : BOOLEAN, bag : BOOLEAN,
            name : BOOLEAN, path : BOOLEAN, init : BOOLEAN,
            empty : {"none", "name", "path"}] :
        /\ c.vfw => c.bto
        /\ c.bag => ~c.vfw
        /\ c.name => c.bag
        /\ c.path => c.name
        /\ c.init => c.path
        /\ c.empty # "none" => c.init}

\* name.bstrVal and path.bstrVal after the two reads succeeded
FriendlyName(c) == IF c.empty = "name" THEN "" ELSE "FriendlyName"

DevicePath(c) == IF c.empty = "path" THEN "" ELSE "DevicePath"

\* The answers of CoCreateInstance and CreateClassEnumerator:
\*   "noDevEnum"   : CoCreateInstance failed
\*   "noClassEnum" : CreateClassEnumerator failed
\*   "empty"       : CreateClassEnumerator returned S_FALSE (no device)
\*   "ok"          : both succeeded
EnumOutcome == {"noDevEnum", "noClassEnum", "empty", "ok"}

----------------------------------------------------------------------------
(* DSManager.cpp : events                                                  *)

Acquire(kind, i) == <<"acquire", kind, i>>
Release(kind, i) == <<"release", kind, i>>
New(r)           == <<"new", "record", r>>
Delete(r)        == <<"delete", "record", r>>
PushBack(r)      == <<"push_back", "record", r>>
LogDebug(i)      == <<"log", "debug", i>>
LogError(i)      == <<"log", "error", i>>

----------------------------------------------------------------------------
(* DSManager.cpp : the heap of DSCaptureDevice objects                     *)
\* st = [list, heap, dfree, trace] is the state a function works on.

\* DSCaptureDevice(name, path) of DSCaptureDevice.cpp, made for moniker i:
\* the record keeps the two strings it is given; bound is what its
\* initDevice(moniker) will answer
Record(c, i) == [moniker |-> i, bound |-> c.init,
                 name |-> FriendlyName(c), path |-> DevicePath(c)]

\* new DSCaptureDevice(...): the lowest address not in use
Alloc(st) ==
    CHOOSE r \in 1..(Cardinality(DOMAIN st.heap) + 1) : r \notin DOMAIN st.heap

\* delete p
DeleteOne(st, r) ==
    [st EXCEPT !.heap = [a \in DOMAIN st.heap \ {r} |-> st.heap[a]],
               !.dfree = @ \/ (r \notin DOMAIN st.heap),
               !.trace = Append(@, Delete(r))]

\* for(it = m_devices.begin(); it != m_devices.end(); ++it) delete *it;
RECURSIVE DeleteFrom(_, _, _)
DeleteFrom(st, list, k) ==
    IF k > Len(list) THEN st
    ELSE DeleteFrom(DeleteOne(st, list[k]), list, k + 1)

\* ... followed by m_devices.clear()
DeleteAndClear(st) == [DeleteFrom(st, st.list, 1) EXCEPT !.list = <<>>]

----------------------------------------------------------------------------
(* DSManager.cpp : the enumeration pass                                    *)

\* TRUE when the legacy probe ends the iteration in its `continue`
IsLegacy(c) == c.bto /\ c.vfw

\* The legacy probe of one loop iteration (the inner block).
LegacyProbe(st, c, i) ==
    IF ~c.bto
    THEN [st EXCEPT !.trace = @ \o <<LogDebug(i)>>]
    ELSE IF ~c.vfw
    THEN [st EXCEPT !.trace = @ \o <<Acquire("cp", i), LogDebug(i), LogDebug(i)>>]
    ELSE [st EXCEPT !.trace = @ \o <<Acquire("cp", i), LogDebug(i),
                                     Acquire("vfw", i), LogDebug(i), LogDebug(i),
                                     Release("vfw", i), Release("cp", i)>>]

\* Faulty variant of CreateDevice: the result of initDevice() is not looked
\* at, the record is appended whatever it is.
CreateDeviceUnchecked(st, c, i) ==
    LET r == Alloc(st)
    IN  [st EXCEPT !.heap = [a \in DOMAIN st.heap \cup {r} |->
                                IF a = r THEN Record(c, i)
                                ELSE st.heap[a]],
                   !.list = Append(@, r),
                   !.trace = @ \o <<New(r), LogDebug(i), PushBack(r)>>]

\* Faulty variant of CreateDevice: push_front in place of push_back.
CreateDeviceFront(st, c, i) ==
    LET r == Alloc(st)
        made == [st EXCEPT !.heap = [a \in DOMAIN st.heap \cup {r} |->
                                        IF a = r
                                        THEN Record(c, i)
                                        ELSE st.heap[a]],
                           !.trace = Append(@, New(r))]
    IN  IF c.init
        THEN [made EXCEPT !.list = <<r>> \o @,
                          !.trace = @ \o <<LogDebug(i), PushBack(r)>>]
        ELSE DeleteOne([made EXCEPT !.trace = Append(@, LogError(i))], r)

\* new DSCaptureDevice(name, path); initDevice(moniker); push_back or delete
CreateDevice(st, c, i) ==
    LET r == Alloc(st)
        made == [st EXCEPT !.heap = [a \in DOMAIN st.heap \cup {r} |->
                                        IF a = r
                                        THEN Record(c, i)
                                        ELSE st.heap[a]],
                           !.trace = Append(@, New(r))]
    IN  IF c.init
        THEN [made EXCEPT !.list = Append(@, r),
                          !.trace = @ \o <<LogDebug(i), PushBack(r)>>]
        ELSE DeleteOne([made EXCEPT !.trace = Append(@, LogError(i))], r)

\* Faulty variant of ReadProperties: a failed read of the device path is
\* skipped without a log line.
ReadPropertiesSilent(st, c, i) ==
    IF ~c.bag
    THEN [st EXCEPT !.trace = @ \o <<LogError(i), Release("moniker", i)>>]
    ELSE IF ~c.name
    THEN [st EXCEPT !.trace = @ \o <<Acquire("propertyBag", i), LogDebug(i),
                                     LogError(i),
                                     Release("propertyBag", i), Release("moniker", i)>>]
    ELSE IF ~c.path
    THEN [st EXCEPT !.trace = @ \o <<Acquire("propertyBag", i), LogDebug(i),
                                     Release("propertyBag", i), Release("moniker", i)>>]
    ELSE LET found == [st EXCEPT !.trace = @ \o <<Acquire("propertyBag", i),
                                                  LogDebug(i), LogDebug(i)>>]
             built == CreateDevice(found, c, i)
         IN  [built EXCEPT !.trace = @ \o <<Release("propertyBag", i),
                                            Release("moniker", i)>>]

\* The rest of one loop iteration, from BindToStorage on.
ReadProperties(st, c, i) ==
    IF ~c.bag
    THEN [st EXCEPT !.trace = @ \o <<LogError(i), Release("moniker", i)>>]
    ELSE IF ~c.name
    THEN [st EXCEPT !.trace = @ \o <<Acquire("propertyBag", i), LogDebug(i),
                                     LogError(i),
                                     Release("propertyBag", i), Release("moniker", i)>>]
    ELSE IF ~c.path
    THEN [st EXCEPT !.trace = @ \o <<Acquire("propertyBag", i), LogDebug(i),
                                     LogError(i),
                                     Release("propertyBag", i), Release("moniker", i)>>]
    ELSE LET found == [st EXCEPT !.trace = @ \o <<Acquire("propertyBag", i),
                                                  LogDebug(i), LogDebug(i)>>]
             built == CreateDevice(found, c, i)
         IN  [built EXCEPT !.trace = @ \o <<Release("propertyBag", i),
                                            Release("moniker", i)>>]

\* One iteration of while(monikerEnum->Next(1, &moniker, 0) == S_OK).
Iteration(st, c, i) ==
    LET got == [st EXCEPT !.trace = Append(@, Acquire("moniker", i))]
        probed == LegacyProbe(got, c, i)
    IN  IF IsLegacy(c) THEN probed ELSE ReadProperties(probed, c, i)

RECURSIVE Loop(_, _, _)
Loop(st, cands, i) ==
    IF i > Len(cands) THEN st
    ELSE Loop(Iteration(st, cands[i], i), cands, i + 1)

\* Faulty variant of CleanUp: the list is cleared, its records are not deleted.
CleanUpLeak(st) == [st EXCEPT !.list = <<>>]

\* if(m_devices.size() > 0) { delete every element; m_devices.clear(); }
CleanUp(st) == IF Len(st.list) > 0 THEN DeleteAndClear(st) ELSE st

\* Faulty variant of InitCaptureDevicesOn: the return taken when
\* CreateClassEnumerator fails does not release devEnum.
InitCaptureDevicesKeepEnum(st, outcome, cands) ==
    LET cleaned == CleanUp(st)
    IN  IF outcome = "noDevEnum"
        THEN [cleaned EXCEPT !.trace = @ \o <<LogError(0)>>]
        ELSE IF outcome \in {"noClassEnum", "empty"}
        THEN [cleaned EXCEPT !.trace = @ \o <<Acquire("devEnum", 0), LogError(0)>>]
        ELSE LET opened == [cleaned EXCEPT !.trace = @ \o <<Acquire("devEnum", 0),
                                                  Acquire("monikerEnum", 0)>>]
                 looped == Loop(opened, cands, 1)
             IN  [looped EXCEPT !.trace = @ \o <<Release("monikerEnum", 0),
                                                 Release("devEnum", 0)>>]

\* DSManager::initCaptureDevices
InitCaptureDevicesOn(st, outcome, cands) ==
    LET cleaned == CleanUp(st)
    IN  IF outcome = "noDevEnum"
        THEN [cleaned EXCEPT !.trace = @ \o <<LogError(0)>>]
        ELSE IF outcome \in {"noClassEnum", "empty"}
        THEN [cleaned EXCEPT !.trace = @ \o <<Acquire("devEnum", 0), LogError(0),
                                              Release("devEnum", 0)>>]
        ELSE LET opened == [cleaned EXCEPT !.trace = @ \o <<Acquire("devEnum", 0),
                                                  Acquire("monikerEnum", 0)>>]
                 looped == Loop(opened, cands, 1)
             IN  [looped EXCEPT !.trace = @ \o <<Release("monikerEnum", 0),
                                                 Release("devEnum", 0)>>]

----------------------------------------------------------------------------
(* DSManager.cpp : actions                                                 *)

Work(trace) == [list |-> m_devices, heap |-> heap, dfree |-> doubleFree,
                trace |-> trace]

Store(st) ==
    /\ m_devices' = st.list
    /\ heap' = st.heap
    /\ doubleFree' = st.dfree
    /\ dsTrace' = st.trace
    /\ devicesBefore' = m_devices

\* DSManager::DSManager(JavaLogger*)
Constructor(coInitOk, outcome) ==
    /\ mgr = "unborn"
    /\ IF coInitOk
       THEN /\ Store(InitCaptureDevicesOn(Work(<<LogDebug(0)>>), outcome, platform))
            /\ enumRes' = outcome
            /\ comInits' = comInits + 1
       ELSE /\ Store(Work(<<LogError(0)>>))
            /\ enumRes' = "notRun"
            /\ comInits' = comInits
    /\ coUninitialize' = FALSE
    /\ mgr' = "alive"
    /\ dsOp' = "constructor"
    /\ returned' = <<>>
    /\ UNCHANGED <<platform, macVars, raceVars>>

\* DSManager::initCaptureDevices(JavaLogger*), called on a live manager
InitCaptureDevices(outcome) ==
    /\ mgr = "alive"
    /\ Store(InitCaptureDevicesOn(Work(<<>>), outcome, platform))
    /\ enumRes' = outcome
    /\ dsOp' = "initCaptureDevices"
    /\ returned' = <<>>
    /\ UNCHANGED <<platform, mgr, coUninitialize, comInits, macVars, raceVars>>

\* DSManager::getDevices()
GetDevices ==
    /\ mgr = "alive"
    /\ returned' = m_devices
    /\ dsOp' = "getDevices"
    /\ dsTrace' = <<>>
    /\ devicesBefore' = m_devices
    /\ UNCHANGED <<platform, mgr, m_devices, coUninitialize, comInits, heap,
                   doubleFree, enumRes, macVars, raceVars>>

\* DSManager::~DSManager()
Destructor ==
    /\ mgr = "alive"
    /\ Store(DeleteAndClear(Work(<<>>)))
    /\ comInits' = IF coUninitialize THEN comInits - 1 ELSE comInits
    /\ mgr' = "dead"
    /\ dsOp' = "destructor"
    /\ returned' = <<>>
    /\ UNCHANGED <<platform, coUninitialize, enumRes, macVars, raceVars>>

DSNext ==
    \/ \E ok \in BOOLEAN, o \in EnumOutcome : Constructor(ok, o)
    \/ \E o \in EnumOutcome : InitCaptureDevices(o)
    \/ GetDevices
    \/ Destructor

----------------------------------------------------------------------------
(* DSManager.cpp : two threads on one manager                              *)
\* DSManager holds no lock.  One thread runs initCaptureDevices() statement
\* by statement while another copies the list in getDevices() node by node.
\* The copy of a list that is cleared under its iterator reads freed nodes:
\* it either ends the process or goes on with the nodes the list holds by
\* then.

StoreStep(st) ==
    /\ m_devices' = st.list
    /\ heap' = st.heap
    /\ doubleFree' = st.dfree
    /\ dsTrace' = st.trace

\* initCaptureDevices() is entered
WBegin(outcome) ==
    /\ mgr = "alive" /\ ~raceCrashed /\ wPc = "idle"
    /\ wOutcome' = outcome
    /\ wAfter' = InitCaptureDevicesOn(Work(<<>>), outcome, platform).list
    /\ wPc' = IF Len(m_devices) > 0 THEN "delete" ELSE "create"
    /\ wIdx' = 1
    /\ devicesBefore' = m_devices
    /\ dsTrace' = <<>>
    /\ rSeen' = IF rPc = "copy" THEN rSeen \cup {wAfter'} ELSE rSeen
    /\ UNCHANGED <<platform, mgr, m_devices, coUninitialize, comInits, heap,
                   doubleFree, enumRes, dsOp, returned, rPc, rIdx, rCopy,
                   rDangling, raceCrashed, macVars,
                   macRaceVars>>

\* delete *it, for one element of the old list
WDelete ==
    /\ ~raceCrashed /\ wPc = "delete"
    /\ StoreStep(DeleteOne(Work(dsTrace), m_devices[wIdx]))
    /\ IF wIdx = Len(m_devices)
       THEN wPc' = "clear" /\ wIdx' = 0
       ELSE wPc' = "delete" /\ wIdx' = wIdx + 1
    /\ UNCHANGED <<platform, mgr, coUninitialize, comInits, enumRes, dsOp,
                   devicesBefore, returned, wOutcome, wAfter, rPc, rIdx, rCopy,
                   rSeen, rDangling, raceCrashed, macVars,
                   macRaceVars>>

\* m_devices.clear()
WClear ==
    /\ ~raceCrashed /\ wPc = "clear"
    /\ m_devices' = <<>>
    /\ wPc' = "create"
    /\ rDangling' = (rDangling \/ (rPc = "copy" /\ rIdx <= Len(m_devices)))
    /\ UNCHANGED <<platform, mgr, coUninitialize, comInits, heap, doubleFree,
                   enumRes, dsOp, devicesBefore, dsTrace, returned, wIdx,
                   wOutcome, wAfter, rPc, rIdx, rCopy, rSeen, raceCrashed,
                   macVars,
                   macRaceVars>>

\* CoCreateInstance and CreateClassEnumerator, and the returns on failure
WCreate ==
    /\ ~raceCrashed /\ wPc = "create"
    /\ dsTrace' = dsTrace \o
            (IF wOutcome = "noDevEnum" THEN <<LogError(0)>>
             ELSE IF wOutcome \in {"noClassEnum", "empty"}
             THEN <<Acquire("devEnum", 0), LogError(0), Release("devEnum", 0)>>
             ELSE <<Acquire("devEnum", 0), Acquire("monikerEnum", 0)>>)
    /\ IF wOutcome = "ok"
       THEN wPc' = "loop" /\ wIdx' = 1 /\ UNCHANGED <<enumRes, dsOp>>
       ELSE /\ wPc' = "idle" /\ wIdx' = 0
            /\ enumRes' = wOutcome /\ dsOp' = "initCaptureDevices"
    /\ UNCHANGED <<platform, mgr, m_devices, coUninitialize, comInits, heap,
                   doubleFree, devicesBefore, returned, wOutcome, wAfter, rPc,
                   rIdx, rCopy, rSeen, rDangling, raceCrashed, macVars,
                   macRaceVars>>

\* one iteration of the loop over the monikers
WIteration ==
    /\ ~raceCrashed /\ wPc = "loop" /\ wIdx <= Len(platform)
    /\ StoreStep(Iteration(Work(dsTrace), platform[wIdx], wIdx))
    /\ wIdx' = wIdx + 1
    /\ UNCHANGED <<platform, mgr, coUninitialize, comInits, enumRes, dsOp,
                   devicesBefore, returned, wPc, wOutcome, wAfter, rPc, rIdx,
                   rCopy, rSeen, rDangling, raceCrashed, macVars,
                   macRaceVars>>

\* the loop ends: monikerEnum->Release(), devEnum->Release(), return
WReturn ==
    /\ ~raceCrashed /\ wPc = "loop" /\ wIdx > Len(platform)
    /\ dsTrace' = dsTrace \o <<Release("monikerEnum", 0), Release("devEnum", 0)>>
    /\ wPc' = "idle" /\ wIdx' = 0
    /\ enumRes' = wOutcome /\ dsOp' = "initCaptureDevices"
    /\ UNCHANGED <<platform, mgr, m_devices, coUninitialize, comInits, heap,
                   doubleFree, devicesBefore, returned, wOutcome, wAfter, rPc,
                   rIdx, rCopy, rSeen, rDangling, raceCrashed, macVars,
                   macRaceVars>>

\* getDevices() is entered: the copy starts at m_devices.begin()
RBegin ==
    /\ mgr = "alive" /\ ~raceCrashed /\ rPc \in {"idle", "returned"}
    /\ rPc' = "copy"
    /\ rIdx' = 1
    /\ rCopy' = <<>>
    /\ rSeen' = IF wPc = "idle" THEN {m_devices} ELSE {devicesBefore, wAfter}
    /\ rDangling' = FALSE
    /\ returned' = <<>>
    /\ UNCHANGED <<platform, mgr, m_devices, coUninitialize, comInits, heap,
                   doubleFree, enumRes, dsOp, devicesBefore, dsTrace, wPc, wIdx,
                   wOutcome, wAfter, raceCrashed, macVars,
                   macRaceVars>>

\* one node is copied
RCopy ==
    /\ ~raceCrashed /\ rPc = "copy" /\ rIdx <= Len(m_devices)
    /\ rCopy' = Append(rCopy, m_devices[rIdx])
    /\ rIdx' = rIdx + 1
    /\ UNCHANGED <<dsVars, wPc, wIdx, wOutcome, wAfter, rPc, rSeen, rDangling,
                   raceCrashed, macVars,
                   macRaceVars>>

\* the copy reaches m_devices.end() and is returned
REnd ==
    /\ ~raceCrashed /\ rPc = "copy" /\ rIdx > Len(m_devices)
    /\ returned' = rCopy
    /\ rPc' = "returned"
    /\ dsOp' = "getDevices"
    /\ UNCHANGED <<platform, mgr, m_devices, coUninitialize, comInits, heap,
                   doubleFree, enumRes, devicesBefore, dsTrace, wPc, wIdx,
                   wOutcome, wAfter, rIdx, rCopy, rSeen, rDangling, raceCrashed,
                   macVars,
                   macRaceVars>>

\* the copy follows a node freed by clear() and the process dies
RCrash ==
    /\ ~raceCrashed /\ rPc = "copy" /\ rDangling
    /\ raceCrashed' = TRUE
    /\ UNCHANGED <<dsVars, wPc, wIdx, wOutcome, wAfter, rPc, rIdx, rCopy, rSeen,
                   rDangling, macVars,
                   macRaceVars>>

DSRaceNext ==
    \/ \E ok \in BOOLEAN, o \in EnumOutcome : Constructor(ok, o)
    \/ \E o \in EnumOutcome : WBegin(o)
    \/ WDelete
    \/ WClear
    \/ WCreate
    \/ WIteration
    \/ WReturn
    \/ RBegin
    \/ RCopy
    \/ REnd
    \/ RCrash

----------------------------------------------------------------------------
(* maccoreaudio_util.c : the runtime and the native world                  *)

\* The native threads: a thread of the managed runtime and a CoreAudio thread.
Threads == {"java", "native"}

\* The bytes a native buffer is filled with, and the same bytes as jbyte.
ByteSample == {0, 255}

\* (jbyte *) buffer : a char of the native buffer read as a signed jbyte
ToJByte(b) == IF b >= 128 THEN b - 256 ELSE b

\* memcpy(buffer, bytes, ...) : a jbyte written back as a char
FromJByte(j) == IF j < 0 THEN j + 256 ELSE j

JByteSample == {ToJByte(b) : b \in ByteSample}

\* JavaVM::GetEnv for a thread: JNI_EDETACHED when it is not attached,
\* else JNI_EVERSION when the version asked for is not supported, else JNI_OK.
GetEnvRes(isAttached, versionOk) ==
    IF ~isAttached THEN "JNI_EDETACHED"
    ELSE IF versionOk THEN "JNI_OK" ELSE "JNI_EVERSION"

\* What the runtime answers to the calls of one guarded function.  As for
\* monikers, a field is TRUE when the call succeeds, and calls that are never
\* reached have no answer and are kept FALSE.
\*   version : GetEnv finds the version supported (asked only when attached)
\*   attach  : AttachCurrentThreadAsDaemon returns 0 (asked only when detached)
\*   class   : FindClass finds the class
\*   gref    : NewGlobalRef grants a reference
\*   method  : GetStaticMethodID finds the method
\*   crash   : a call with undefined behaviour ends the process
GuardOk(e, isAttached) == IF isAttached THEN e.version ELSE e.attach

GuardEnv(isAttached) ==
    {e \in [version : BOOLEAN, attach : BOOLEAN] :
        /\ isAttached => ~e.attach
        /\ ~isAttached => ~e.version}

LogEnv(isAttached) ==
    {e \in [version : BOOLEAN, attach : BOOLEAN, class : BOOLEAN,
            method : BOOLEAN, crash : BOOLEAN] :
        /\ isAttached => ~e.attach
        /\ ~isAttached => ~e.version
        /\ e.class => GuardOk(e, isAttached)
        /\ e.method => e.class
        /\ e.crash => (e.class /\ ~e.method)}

HotplugEnv(isAttached) ==
    {e \in [version : BOOLEAN, attach : BOOLEAN, class : BOOLEAN,
            gref : BOOLEAN, method : BOOLEAN] :
        /\ isAttached => ~e.attach
        /\ ~isAttached => ~e.version
        /\ e.class => GuardOk(e, isAttached)
        /\ e.gref => e.class
        /\ e.method => e.gref}

----------------------------------------------------------------------------
(* maccoreaudio_util.c : events                                            *)

\* <<what, argument, reference, frame>>: frame numbers the function calls of
\* one operation in the order they are entered.
Ev(what, arg, ref, f) == <<what, arg, ref, f>>

Say(w, what, arg, ref, f) == [w EXCEPT !.trace = Append(@, Ev(what, arg, ref, f))]

Enter(w, fn) ==
    LET f == w.frames + 1
    IN  [w EXCEPT !.frames = f, !.trace = Append(@, Ev("Enter", fn, 0, f))]

Return(w, fn, f) == Say(w, "Return", fn, 0, f)

----------------------------------------------------------------------------
(* maccoreaudio_util.c : ATTACH() and DETACH()                             *)
\* w = [vm, class, methodID, att, grefs, listeners, crashed, trace, frames]
\* is the state a function works on.

\* Faulty variant of ATTACH(): envAttached is set whatever GetEnv and
\* AttachCurrentThreadAsDaemon answer.
AttachUnchecked(w, t, f, e) ==
    LET getEnvRes == GetEnvRes(w.att[t], e.version)
        w1 == Say(w, "GetEnv", getEnvRes, 0, f)
    IN  IF getEnvRes = "JNI_EDETACHED"
        THEN IF e.attach
             THEN [w |-> [Say(w1, "AttachCurrentThreadAsDaemon", "ok", 0, f)
                             EXCEPT !.att[t] = TRUE],
                   envAttached |-> TRUE, shouldDetach |-> TRUE]
             ELSE [w |-> Say(w1, "AttachCurrentThreadAsDaemon", "failed", 0, f),
                   envAttached |-> TRUE, shouldDetach |-> FALSE]
        ELSE [w |-> w1, envAttached |-> TRUE, shouldDetach |-> FALSE]

\* ATTACH(): the result carries the locals envAttached and shouldDetach.
ATTACH(w, t, f, e) ==
    IF w.vm = "NULL"
    THEN [w |-> [Say(w, "NullDereference", "MacCoreaudio_VM", 0, f)
                    EXCEPT !.crashed = TRUE],
          envAttached |-> FALSE, shouldDetach |-> FALSE]
    ELSE LET getEnvRes == GetEnvRes(w.att[t], e.version)
             w1 == Say(w, "GetEnv", getEnvRes, 0, f)
         IN  IF getEnvRes = "JNI_EDETACHED"
             THEN IF e.attach
                  THEN [w |-> [Say(w1, "AttachCurrentThreadAsDaemon", "ok", 0, f)
                                  EXCEPT !.att[t] = TRUE],
                        envAttached |-> TRUE, shouldDetach |-> TRUE]
                  ELSE [w |-> Say(w1, "AttachCurrentThreadAsDaemon", "failed", 0, f),
                        envAttached |-> FALSE, shouldDetach |-> FALSE]
             ELSE IF getEnvRes = "JNI_OK"
             THEN [w |-> w1, envAttached |-> TRUE, shouldDetach |-> FALSE]
             ELSE [w |-> w1, envAttached |-> FALSE, shouldDetach |-> FALSE]

\* Faulty variant of DETACH(): detaches without looking at shouldDetach.
DetachAlways(w, t, f, shouldDetach) ==
    [Say(w, "DetachCurrentThread", "", 0, f) EXCEPT !.att[t] = FALSE]

\* DETACH()
DETACH(w, t, f, shouldDetach) ==
    IF shouldDetach
    THEN [Say(w, "DetachCurrentThread", "", 0, f) EXCEPT !.att[t] = FALSE]
    ELSE w

----------------------------------------------------------------------------
(* maccoreaudio_util.c : the functions                                     *)

\* Sequencing: Then(v, K) is K applied to the value of v, v being evaluated
\* once (a statement's result handed to the statements after it).
Then(v, K(_)) == CHOOSE r \in {K(x) : x \in {v}} : TRUE

\* the locals of a function that never reached ATTACH()
NoEnv(w) == [w |-> w, envAttached |-> FALSE, shouldDetach |-> FALSE]

\* Faulty variant of LogForward: returns without DETACH() when the class is
\* not found.
LogForwardNoDetach(g, t, f, e) ==
    IF ~e.class
    THEN Return(Say(g.w, "FindClass", "failed", 0, f), "log", f)
    ELSE Return(DETACH(Say(Say(Say(g.w, "FindClass", "ok", 0, f),
                               "GetStaticMethodID", "ok", 0, f),
                           "CallStaticVoidMethod", "log", 1, f),
                       t, f, g.shouldDetach), "log", f)

\* MacCoreaudio_log from FindClass on, g being the result of ATTACH().
\* The byte array of the message is taken to be granted.  With the class
\* found and the method not, CallStaticVoidMethod is called with a NULL
\* method id: undefined behaviour, which ends the process or is survived.
LogForward(g, t, f, e) ==
    IF ~e.class
    THEN Return(DETACH(Say(g.w, "FindClass", "failed", 0, f),
                       t, f, g.shouldDetach), "log", f)
    ELSE IF e.method
    THEN Return(DETACH(Say(Say(Say(g.w, "FindClass", "ok", 0, f),
                               "GetStaticMethodID", "ok", 0, f),
                           "CallStaticVoidMethod", "log", 1, f),
                       t, f, g.shouldDetach), "log", f)
    ELSE IF e.crash
    THEN [Say(Say(Say(g.w, "FindClass", "ok", 0, f),
                  "GetStaticMethodID", "failed", 0, f),
              "CallStaticVoidMethod", "log", 0, f) EXCEPT !.crashed = TRUE]
    ELSE Return(DETACH(Say(Say(Say(g.w, "FindClass", "ok", 0, f),
                               "GetStaticMethodID", "failed", 0, f),
                           "CallStaticVoidMethod", "log", 0, f),
                       t, f, g.shouldDetach), "log", f)

\* void MacCoreaudio_log(const char *error_format, ...)
MacCoreaudio_log(w, t, e) ==
    IF w.crashed THEN w ELSE
    Then(Enter(w, "log"), LAMBDA w0 :
    Then(ATTACH(w0, t, w0.frames, e), LAMBDA g :
        IF g.w.crashed THEN g.w
        ELSE IF ~g.envAttached THEN Return(g.w, "log", w0.frames)
        ELSE LogForward(g, t, w0.frames, e)))

\* Faulty variant of RelayForward: the managed bytes are not copied back.
RelayForwardNoCopyBack(g, t, f, buffer, bufferLength, out) ==
    LET bufferBytes == [i \in 1..bufferLength |-> ToJByte(buffer[i])]
    IN  [w |-> Return(DETACH(Say(g.w, "CallVoidMethod", "callback", 0, f),
                             t, f, g.shouldDetach), "callbackMethod", f),
         b |-> [native |-> buffer, passed |-> bufferBytes,
                managed |-> out[bufferBytes], called |-> TRUE]]

\* MacCoreaudio_callbackMethod after ATTACH() succeeded: the result is the
\* state and b = [native, passed, managed], the native buffer, the byte array
\* as handed to the callback and as the callback left it.
RelayForward(g, t, f, buffer, bufferLength, out) ==
    LET bufferBytes == [i \in 1..bufferLength |-> ToJByte(buffer[i])]
        bytes == out[bufferBytes]
        copied == [i \in 1..Len(buffer) |->
                      IF i <= bufferLength THEN FromJByte(bytes[i]) ELSE buffer[i]]
    IN  [w |-> Return(DETACH(Say(g.w, "CallVoidMethod", "callback", 0, f),
                             t, f, g.shouldDetach), "callbackMethod", f),
         b |-> [native |-> copied, passed |-> bufferBytes,
                managed |-> bytes, called |-> TRUE]]

\* void MacCoreaudio_callbackMethod(char *buffer, int bufferLength,
\*                                  void *callback, void *callbackMethod)
\* out is what the managed callback does to the byte array it is handed.
\* The byte array is taken to be granted.
MacCoreaudio_callbackMethod(w, t, e, buffer, bufferLength, out) ==
    Then(Enter(w, "callbackMethod"), LAMBDA w0 :
    Then(ATTACH(w0, t, w0.frames, e), LAMBDA g :
        LET none == [native |-> buffer, passed |-> <<>>, managed |-> <<>>,
                     called |-> FALSE]
        IN  IF g.w.crashed THEN [w |-> g.w, b |-> none]
            ELSE IF ~g.envAttached
            THEN [w |-> Return(g.w, "callbackMethod", w0.frames), b |-> none]
            ELSE RelayForward(g, t, w0.frames, buffer, bufferLength, out)))

\* Faulty variant of NotifyForward: the two fields are not tested.
NotifyForwardUnchecked(g, t, f) ==
    Return(DETACH(Say(g.w, "CallStaticVoidMethod", "devicesChangedCallback",
                      g.w.class, f),
                  t, f, g.shouldDetach),
           "devicesChangedCallbackMethod", f)

\* MacCoreaudio_devicesChangedCallbackMethod after ATTACH() succeeded
NotifyForward(g, t, f) ==
    LET class == g.w.class
        methodID == g.w.methodID
    IN  Return(DETACH(IF class # 0 /\ methodID # 0
                      THEN Say(g.w, "CallStaticVoidMethod", "devicesChangedCallback",
                               class, f)
                      ELSE g.w,
                      t, f, g.shouldDetach),
               "devicesChangedCallbackMethod", f)

\* void MacCoreaudio_devicesChangedCallbackMethod(void)
MacCoreaudio_devicesChangedCallbackMethod(w, t, el, e) ==
    Then(Enter(w, "devicesChangedCallbackMethod"), LAMBDA w0 :
    Then(MacCoreaudio_log(w0, t, el), LAMBDA w1 :
    Then(IF w1.crashed THEN NoEnv(w1) ELSE ATTACH(w1, t, w0.frames, e), LAMBDA g :
        IF g.w.crashed THEN g.w
        ELSE IF ~g.envAttached
        THEN Return(g.w, "devicesChangedCallbackMethod", w0.frames)
        ELSE NotifyForward(g, t, w0.frames))))

\* NewGlobalRef: a reference not in use, or 0 (NULL) when none is granted
NewGlobalRef(w, granted) ==
    IF granted /\ Cardinality(w.grefs) < MaxRefs
    THEN CHOOSE r \in 1..MaxRefs : r \notin w.grefs
    ELSE 0

\* The resolution inside MacCoreaudio_initHotplug, entered with both fields NULL.
ResolveAndRegister(w, f, e) ==
    IF ~e.class THEN Say(w, "FindClass", "failed", 0, f)
    ELSE LET devicesChangedCallbackClass == NewGlobalRef(w, e.gref)
             w2 == [Say(Say(w, "FindClass", "ok", 0, f),
                        "NewGlobalRef", "", devicesChangedCallbackClass, f)
                       EXCEPT !.grefs = @ \cup ({devicesChangedCallbackClass} \ {0})]
         IN  IF devicesChangedCallbackClass = 0 THEN w2
             ELSE IF ~e.method THEN Say(w2, "GetStaticMethodID", "failed", 0, f)
             ELSE [Say(Say(w2, "GetStaticMethodID", "ok", 0, f),
                       "initializeHotplug", "", 0, f)
                      EXCEPT !.class = devicesChangedCallbackClass,
                             !.methodID = 1,
                             !.listeners = @ + 1]

\* Faulty variant of MustResolve: the fields are not looked at.
MustResolveAlways(w) == TRUE

\* if(class == NULL && methodID == NULL): whether initHotplug resolves
MustResolve(w) == w.class = 0 /\ w.methodID = 0

\* void MacCoreaudio_initHotplug(void)
MacCoreaudio_initHotplug(w, t, el, e) ==
    IF w.crashed THEN w ELSE
    Then(Enter(w, "initHotplug"), LAMBDA w0 :
    Then(MacCoreaudio_log(w0, t, el), LAMBDA w1 :
    Then(IF w1.crashed THEN NoEnv(w1) ELSE ATTACH(w1, t, w0.frames, e), LAMBDA g :
        IF g.w.crashed THEN g.w
        ELSE Return(DETACH(IF g.envAttached /\ MustResolve(g.w)
                           THEN ResolveAndRegister(g.w, w0.frames, e)
                           ELSE g.w,
                           t, w0.frames, g.shouldDetach),
                    "initHotplug", w0.frames))))

\* MacCoreaudio_freeHotplug from ATTACH() on: DeleteGlobalRef and DETACH(),
\* or the goto, and then EXIT_LABEL.
FreeForward(g, t, f) ==
    LET w3 == IF ~g.envAttached THEN g.w
              ELSE DETACH([Say(g.w, "DeleteGlobalRef", "", g.w.class, f)
                              EXCEPT !.grefs = @ \ {g.w.class}],
                          t, f, g.shouldDetach)
    IN  Return([Say(w3, "ClearFields", "", w3.class, f)
                   EXCEPT !.class = 0, !.methodID = 0],
               "freeHotplug", f)

\* MacCoreaudio_uninitializeHotplug() of device.c
UninitializeHotplug(w, f) ==
    [Say(w, "uninitializeHotplug", "", 0, f) EXCEPT !.listeners = 0]

\* void MacCoreaudio_freeHotplug(void)
MacCoreaudio_freeHotplug(w, t, el, e) ==
    IF w.crashed THEN w ELSE
    Then(Enter(w, "freeHotplug"), LAMBDA w0 :
    Then(MacCoreaudio_log(w0, t, el), LAMBDA w1 :
    Then(IF w1.crashed THEN NoEnv(w1)
         ELSE ATTACH(UninitializeHotplug(w1, w0.frames), t, w0.frames, e), LAMBDA g :
        IF g.w.crashed THEN g.w ELSE FreeForward(g, t, w0.frames))))

\* MacCoreaudio_VM = v
StoreVM(w, v, f) == [Say(w, "StoreVM", v, 0, f) EXCEPT !.vm = v]

\* Faulty variant of JNI_OnLoad: the runtime handle is stored after the
\* log call.
JNI_OnLoadLate(w, t, el, eli, e) ==
    Then(Enter(w, "JNI_OnLoad"), LAMBDA w0 :
    Then(MacCoreaudio_log(w0, t, el), LAMBDA w1 :
    Then(MacCoreaudio_initHotplug(StoreVM(w1, "vm", w0.frames), t, eli, e), LAMBDA w2 :
        IF w2.crashed THEN w2 ELSE Return(w2, "JNI_OnLoad", w0.frames))))

\* jint JNI_OnLoad(JavaVM *vm, void *pvt)
JNI_OnLoad(w, t, el, eli, e) ==
    Then(Enter(w, "JNI_OnLoad"), LAMBDA w0 :
    Then(MacCoreaudio_log(StoreVM(w0, "vm", w0.frames), t, el), LAMBDA w1 :
    Then(MacCoreaudio_initHotplug(w1, t, eli, e), LAMBDA w2 :
        IF w2.crashed THEN w2 ELSE Return(w2, "JNI_OnLoad", w0.frames))))

\* void JNI_OnUnload(JavaVM *vm, void *pvt)
JNI_OnUnload(w, t, el, elf, e) ==
    Then(Enter(w, "JNI_OnUnload"), LAMBDA w0 :
    Then(MacCoreaudio_log(w0, t, el), LAMBDA w1 :
    Then(MacCoreaudio_freeHotplug(w1, t, elf, e), LAMBDA w2 :
        IF w2.crashed THEN w2
        ELSE Return(StoreVM(w2, "NULL", w0.frames), "JNI_OnUnload", w0.frames))))

----------------------------------------------------------------------------
(* maccoreaudio_util.c : actions                                           *)

World ==
    [vm |-> MacCoreaudio_VM,
     class |-> MacCoreaudio_devicesChangedCallbackClass,
     methodID |-> MacCoreaudio_devicesChangedCallbackMethodID,
     att |-> attached, grefs |-> globalRefs, listeners |-> listeners,
     crashed |-> crashed, trace |-> <<>>, frames |-> 0]

NoRelay == [before |-> <<>>, length |-> 0, passed |-> <<>>, managed |-> <<>>,
            after |-> <<>>, called |-> FALSE]

Commit(w, op, t) ==
    /\ MacCoreaudio_VM' = w.vm
    /\ MacCoreaudio_devicesChangedCallbackClass' = w.class
    /\ MacCoreaudio_devicesChangedCallbackMethodID' = w.methodID
    /\ attached' = w.att
    /\ globalRefs' = w.grefs
    /\ listeners' = w.listeners
    /\ crashed' = w.crashed
    /\ macTrace' = w.trace
    /\ macOp' = op
    /\ macThread' = t
    /\ attachedBefore' = attached[t]
    /\ classBefore' = MacCoreaudio_devicesChangedCallbackClass

\* The library is loaded: its functions can be called.
Loaded == MacCoreaudio_VM # "NULL" /\ ~crashed

OnLoad(t) ==
    /\ MacCoreaudio_VM = "NULL" /\ ~crashed
    /\ \E el \in LogEnv(attached[t]), eli \in LogEnv(attached[t]),
          e \in HotplugEnv(attached[t]) :
          \E w \in {JNI_OnLoad(World, t, el, eli, e)} : Commit(w, "JNI_OnLoad", t)
    /\ relay' = NoRelay
    /\ UNCHANGED <<dsVars, raceVars>>

OnUnload(t) ==
    /\ Loaded
    /\ \E el \in LogEnv(attached[t]), elf \in LogEnv(attached[t]),
          e \in GuardEnv(attached[t]) :
          \E w \in {JNI_OnUnload(World, t, el, elf, e)} : Commit(w, "JNI_OnUnload", t)
    /\ relay' = NoRelay
    /\ UNCHANGED <<dsVars, raceVars>>

Log(t) ==
    /\ Loaded
    /\ \E e \in LogEnv(attached[t]) :
          \E w \in {MacCoreaudio_log(World, t, e)} : Commit(w, "log", t)
    /\ relay' = NoRelay
    /\ UNCHANGED <<dsVars, raceVars>>

InitHotplug(t) ==
    /\ Loaded
    /\ \E el \in LogEnv(attached[t]), e \in HotplugEnv(attached[t]) :
          \E w \in {MacCoreaudio_initHotplug(World, t, el, e)} :
            Commit(w, "initHotplug", t)
    /\ relay' = NoRelay
    /\ UNCHANGED <<dsVars, raceVars>>

FreeHotplug(t) ==
    /\ Loaded
    /\ \E el \in LogEnv(attached[t]), e \in GuardEnv(attached[t]) :
          \E w \in {MacCoreaudio_freeHotplug(World, t, el, e)} :
            Commit(w, "freeHotplug", t)
    /\ relay' = NoRelay
    /\ UNCHANGED <<dsVars, raceVars>>

DevicesChanged(t) ==
    /\ Loaded
    /\ \E el \in LogEnv(attached[t]), e \in GuardEnv(attached[t]) :
          \E w \in {MacCoreaudio_devicesChangedCallbackMethod(World, t, el, e)} :
            Commit(w, "devicesChangedCallbackMethod", t)
    /\ relay' = NoRelay
    /\ UNCHANGED <<dsVars, raceVars>>

CallbackMethod(t) ==
    /\ Loaded
    /\ \E e \in GuardEnv(attached[t]), buffer \in SeqsUpTo(ByteSample, MaxLen) :
       \E bufferLength \in 0..Len(buffer) :
       \E given \in {[i \in 1..bufferLength |-> ToJByte(buffer[i])]},
          left \in [1..bufferLength -> JByteSample] :
          \E r \in {MacCoreaudio_callbackMethod(World, t, e, buffer, bufferLength,
                                                  [x \in {given} |-> left])} :
                /\ Commit(r.w, "callbackMethod", t)
                /\ relay' = [before |-> buffer, length |-> bufferLength,
                             passed |-> r.b.passed, managed |-> r.b.managed,
                             after |-> r.b.native, called |-> r.b.called]
    /\ UNCHANGED <<dsVars, raceVars>>

MacInit ==
    /\ MacCoreaudio_VM = "NULL"
    /\ MacCoreaudio_devicesChangedCallbackClass = 0
    /\ MacCoreaudio_devicesChangedCallbackMethodID = 0
    /\ attached = [t \in Threads |-> t = "java"]
    /\ globalRefs = {}
    /\ listeners = 0
    /\ crashed = FALSE
    /\ macOp = "none"
    /\ macThread = "java"
    /\ attachedBefore = TRUE
    /\ classBefore = 0
    /\ macTrace = <<>>
    /\ relay = NoRelay

MacNext ==
    \/ \E t \in Threads : OnLoad(t)
    \/ \E t \in Threads : OnUnload(t)
    \/ \E t \in Threads : Log(t)
    \/ \E t \in Threads : InitHotplug(t)
    \/ \E t \in Threads : FreeHotplug(t)
    \/ \E t \in Threads : DevicesChanged(t)
    \/ \E t \in Threads : CallbackMethod(t)

----------------------------------------------------------------------------
(* maccoreaudio_util.c : a device-change event during the teardown         *)
\* The functions take no lock.  CoreAudio calls
\* MacCoreaudio_devicesChangedCallbackMethod on the native thread while the
\* java thread runs MacCoreaudio_freeHotplug or JNI_OnUnload; each runs
\* statement by statement.  CoreAudio starts no handler once the listener is
\* removed; a handler it has started goes on.

CommitStep(w) ==
    /\ MacCoreaudio_VM' = w.vm
    /\ MacCoreaudio_devicesChangedCallbackClass' = w.class
    /\ MacCoreaudio_devicesChangedCallbackMethodID' = w.methodID
    /\ attached' = w.att
    /\ globalRefs' = w.grefs
    /\ listeners' = w.listeners
    /\ crashed' = w.crashed
    /\ UNCHANGED <<macOp, macThread, attachedBefore, classBefore, macTrace, relay>>

\* JNI_OnLoad, on the java thread, with no other call in progress
ULoad ==
    /\ MacCoreaudio_VM = "NULL" /\ ~crashed /\ hPc = "idle" /\ uPc = "idle"
    /\ \E el \in LogEnv(attached["java"]), eli \in LogEnv(attached["java"]),
          e \in HotplugEnv(attached["java"]) :
          \E w \in {JNI_OnLoad(World, "java", el, eli, e)} : CommitStep(w)
    /\ UNCHANGED <<dsVars, raceVars>>

\* the handler is called and makes its log call
HBegin ==
    /\ Loaded /\ listeners > 0 /\ hPc = "idle"
    /\ \E el \in LogEnv(attached["native"]) :
        \E w \in {MacCoreaudio_log(World, "native", el)} :
            /\ CommitStep(w)
            /\ hPc' = IF w.crashed THEN "idle" ELSE "attach"
    /\ UNCHANGED <<dsVars, dsRaceVars, hEnv, hClass, hMethodID, hStale,
                   hNullDeref, uPc, uOp>>

\* ATTACH(), and the return when it obtains no runtime context
HAttach ==
    /\ ~crashed /\ hPc = "attach"
    /\ \E e \in GuardEnv(attached["native"]) :
        \E g \in {ATTACH(World, "native", 1, e)} :
            /\ CommitStep(g.w)
            /\ hEnv' = [envAttached |-> g.envAttached,
                        shouldDetach |-> g.shouldDetach]
            /\ hNullDeref' = (MacCoreaudio_VM = "NULL")
            /\ hPc' = IF g.envAttached THEN "read" ELSE "idle"
    /\ UNCHANGED <<dsVars, dsRaceVars, hClass, hMethodID, hStale, uPc, uOp>>

\* jclass class = ...Class; jmethodID methodID = ...MethodID;
HRead ==
    /\ ~crashed /\ hPc = "read"
    /\ hClass' = MacCoreaudio_devicesChangedCallbackClass
    /\ hMethodID' = MacCoreaudio_devicesChangedCallbackMethodID
    /\ hPc' = "call"
    /\ UNCHANGED <<dsVars, macVars, dsRaceVars, hEnv, hStale, hNullDeref, uPc, uOp>>

\* if(class && methodID) CallStaticVoidMethod(env, class, methodID);
HCall ==
    /\ ~crashed /\ hPc = "call"
    /\ hStale' = (hClass # 0 /\ hMethodID # 0 /\ hClass \notin globalRefs)
    /\ hPc' = "detach"
    /\ UNCHANGED <<dsVars, macVars, dsRaceVars, hEnv, hClass, hMethodID,
                   hNullDeref, uPc, uOp>>

\* DETACH(), and the return
HDetach ==
    /\ ~crashed /\ hPc = "detach"
    /\ IF hEnv.shouldDetach /\ MacCoreaudio_VM = "NULL"
       THEN /\ hNullDeref' = TRUE
            /\ CommitStep([World EXCEPT !.crashed = TRUE])
       ELSE /\ hNullDeref' = hNullDeref
            /\ CommitStep(DETACH(World, "native", 1, hEnv.shouldDetach))
    /\ hPc' = "idle"
    /\ UNCHANGED <<dsVars, dsRaceVars, hEnv, hClass, hMethodID, hStale, uPc, uOp>>

\* MacCoreaudio_freeHotplug, or JNI_OnUnload, is called and makes its log
\* calls (JNI_OnUnload: its own and the one of MacCoreaudio_freeHotplug)
UBegin(op) ==
    /\ Loaded /\ uPc = "idle"
    /\ \E el \in LogEnv(attached["java"]), elf \in LogEnv(attached["java"]) :
        \E w \in {IF op = "JNI_OnUnload"
                  THEN MacCoreaudio_log(MacCoreaudio_log(World, "java", el), "java", elf)
                  ELSE MacCoreaudio_log(World, "java", elf)} :
            /\ CommitStep(w)
            /\ uPc' = IF w.crashed THEN "idle" ELSE "uninit"
    /\ uOp' = op
    /\ UNCHANGED <<dsVars, dsRaceVars, hPc, hEnv, hClass, hMethodID, hStale,
                   hNullDeref>>

\* MacCoreaudio_uninitializeHotplug()
UUninit ==
    /\ ~crashed /\ uPc = "uninit"
    /\ CommitStep(UninitializeHotplug(World, 1))
    /\ uPc' = "release"
    /\ UNCHANGED <<dsVars, dsRaceVars, hPc, hEnv, hClass, hMethodID, hStale,
                   hNullDeref, uOp>>

\* ATTACH(); DeleteGlobalRef(...); DETACH(), or the goto
URelease ==
    /\ ~crashed /\ uPc = "release"
    /\ \E e \in GuardEnv(attached["java"]) :
        \E g \in {ATTACH(World, "java", 1, e)} :
            CommitStep(IF ~g.envAttached THEN g.w
                       ELSE DETACH([g.w EXCEPT !.grefs = @ \ {g.w.class}],
                                   "java", 1, g.shouldDetach))
    /\ uPc' = "clear"
    /\ UNCHANGED <<dsVars, dsRaceVars, hPc, hEnv, hClass, hMethodID, hStale,
                   hNullDeref, uOp>>

\* EXIT_LABEL: both fields are set to NULL
UClear ==
    /\ ~crashed /\ uPc = "clear"
    /\ CommitStep([World EXCEPT !.class = 0, !.methodID = 0])
    /\ uPc' = IF uOp = "JNI_OnUnload" THEN "storeNull" ELSE "idle"
    /\ UNCHANGED <<dsVars, dsRaceVars, hPc, hEnv, hClass, hMethodID, hStale,
                   hNullDeref, uOp>>

\* MacCoreaudio_VM = NULL
UStoreNull ==
    /\ ~crashed /\ uPc = "storeNull"
    /\ CommitStep([World EXCEPT !.vm = "NULL"])
    /\ uPc' = "idle"
    /\ UNCHANGED <<dsVars, dsRaceVars, hPc, hEnv, hClass, hMethodID, hStale,
                   hNullDeref, uOp>>

MacRaceNext ==
    \/ ULoad
    \/ HBegin
    \/ HAttach
    \/ HRead
    \/ HCall
    \/ HDetach
    \/ \E op \in {"freeHotplug", "JNI_OnUnload"} : UBegin(op)
    \/ UUninit
    \/ URelease
    \/ UClear
    \/ UStoreNull

----------------------------------------------------------------------------
(* Specifications *)

DSInit ==
    /\ platform \in SeqsUpTo(Candidate, MaxCand)
    /\ mgr = "unborn"
    /\ m_devices = <<>>
    /\ coUninitialize = FALSE
    /\ comInits = 0
    /\ heap = <<>>
    /\ doubleFree = FALSE
    /\ enumRes = "notRun"
    /\ dsOp = "none"
    /\ devicesBefore = <<>>
    /\ dsTrace = <<>>
    /\ returned = <<>>

DSRaceInit ==
    /\ wPc = "idle"
    /\ wIdx = 0
    /\ wOutcome = "ok"
    /\ wAfter = <<>>
    /\ rPc = "idle"
    /\ rIdx = 0
    /\ rCopy = <<>>
    /\ rSeen = {}
    /\ rDangling = FALSE
    /\ raceCrashed = FALSE

MacRaceInit ==
    /\ hPc = "idle"
    /\ hEnv = [envAttached |-> FALSE, shouldDetach |-> FALSE]
    /\ hClass = 0
    /\ hMethodID = 0
    /\ hStale = FALSE
    /\ hNullDeref = FALSE
    /\ uPc = "idle"
    /\ uOp = "none"

RaceInit == DSRaceInit /\ MacRaceInit

\* The device manager alone, on any platform.
InitDS == DSInit /\ MacInit /\ RaceInit

SpecDS == InitDS /\ [][DSNext]_vars

\* The CoreAudio utility layer alone.
InitMac == platform = <<>> /\ DSInit /\ MacInit /\ RaceInit

SpecMac == InitMac /\ [][MacNext]_vars

\* The device manager shared by a thread in initCaptureDevices() and a
\* thread in getDevices().
InitDSRace ==
    /\ platform \in SeqsUpTo(Candidate, MaxRaceCand)
    /\ DSInit /\ MacInit /\ RaceInit

SpecDSRace == InitDSRace /\ [][DSRaceNext]_vars

\* The CoreAudio utility layer with a device-change event in flight during
\* the teardown.
InitMacRace == InitMac

SpecMacRace == InitMacRace /\ [][MacRaceNext]_vars

----------------------------------------------------------------------------
(* Reading the traces                                                      *)

\* the places of a trace where `what` happens in frame f
At(tr, what, f) == {i \in 1..Len(tr) : tr[i][1] = what /\ tr[i][4] = f}

\* the places of a trace where `what` happens with argument arg
AtArg(tr, what, arg) == {i \in 1..Len(tr) : tr[i][1] = what /\ tr[i][2] = arg}

FramesAt(tr, places) == {tr[i][4] : i \in places}

\* frames entered with a runtime context: GetEnv answered JNI_OK
PreExistingFrames(tr) == FramesAt(tr, AtArg(tr, "GetEnv", "JNI_OK"))

\* frames that attached the thread themselves
OwnedFrames(tr) == FramesAt(tr, AtArg(tr, "AttachCurrentThreadAsDaemon", "ok"))

\* frames whose guard could not obtain a runtime context
FailedFrames(tr) ==
    FramesAt(tr, AtArg(tr, "GetEnv", "JNI_EVERSION")
                    \cup AtArg(tr, "AttachCurrentThreadAsDaemon", "failed"))

\* the invocations of managed methods made in frame f
ManagedCalls(tr, f) == At(tr, "CallVoidMethod", f) \cup At(tr, "CallStaticVoidMethod", f)

AllDetaches(tr) == {i \in 1..Len(tr) : tr[i][1] = "DetachCurrentThread"}

\* the frames of function fn that returned
ReturnedFrames(tr, fn) == FramesAt(tr, AtArg(tr, "Return", fn))

Pass == dsOp \in {"constructor", "initCaptureDevices"}

----------------------------------------------------------------------------
(* Claims *)

\* C1: the guard never detaches a thread it did not attach.  In a frame
\* entered with a runtime context (GetEnv answered JNI_OK)
\* DetachCurrentThread is never called, and after any exported function
\* called on an attached thread, nested calls included, no detach was made
\* and the thread is still attached.
C1_NeverDetachesPreExisting ==
    /\ \A f \in PreExistingFrames(macTrace) :
            At(macTrace, "DetachCurrentThread", f) = {}
    /\ (macOp # "none" /\ attachedBefore) =>
            (AllDetaches(macTrace) = {} /\ attached[macThread])

\* C1 witness: JNI_OnLoad on an attached thread went through its three
\* guarded calls (log, the log of initHotplug, initHotplug), each finding
\* the runtime context.
C1_Witness ==
    /\ macOp = "JNI_OnLoad" /\ attachedBefore /\ ~crashed
    /\ Cardinality(PreExistingFrames(macTrace)) = 3

\* C2: fail-safe skip.  A frame whose guard obtained no runtime context
\* (GetEnv answered neither JNI_OK nor JNI_EDETACHED, or the attach failed)
\* invokes no managed method, and a relay whose guard failed leaves the
\* native buffer as it was.
C2_FailSafeSkip ==
    /\ \A f \in FailedFrames(macTrace) : ManagedCalls(macTrace, f) = {}
    /\ (macOp = "callbackMethod" /\ 1 \in FailedFrames(macTrace)) =>
            (~relay.called /\ relay.after = relay.before)

\* C2 witness: a device-change notification, with a callback target
\* resolved, whose own attach failed.
C2_Witness ==
    /\ macOp = "devicesChangedCallbackMethod" /\ ~crashed
    /\ classBefore # 0
    /\ At(macTrace, "AttachCurrentThreadAsDaemon", 1) # {}
    /\ 1 \in FailedFrames(macTrace)

\* C3: every record of the device list, and of the list getDevices()
\* hands out, is a live record whose initDevice() on its moniker succeeded;
\* a record whose initDevice() failed does not survive the pass.
C3_OnlyBoundRecordsListed ==
    /\ \A k \in 1..Len(m_devices) :
            /\ m_devices[k] \in DOMAIN heap
            /\ heap[m_devices[k]].bound
            /\ platform[heap[m_devices[k]].moniker].init
    /\ \A a \in DOMAIN heap : heap[a].bound
    /\ dsOp = "getDevices" =>
            (returned = m_devices /\ \A k \in 1..Len(returned) : heap[returned[k]].bound)

\* C3 witness: getDevices() hands out a non-empty list after a pass over a
\* platform with a moniker whose initDevice() fails.
C3_Witness ==
    /\ dsOp = "getDevices" /\ returned # <<>> /\ enumRes = "ok"
    /\ \E i \in 1..Len(platform) : platform[i].path /\ ~platform[i].init

\* C4: every interface handle acquired during an enumeration pass is
\* released exactly once before the pass returns.
C4_EveryHandleReleasedOnce ==
    Pass =>
        \A i \in 1..Len(dsTrace) :
            dsTrace[i][1] = "acquire" =>
                /\ Count(dsTrace, dsTrace[i]) = 1
                /\ Count(dsTrace, Release(dsTrace[i][2], dsTrace[i][3])) = 1

\* C5: re-enumeration neither leaks nor double-frees a record.  No delete
\* is ever applied to a record that is not live, the live records are
\* exactly the records of the list (none twice), none is left once the
\* manager is destroyed, and a pass deletes every record of the old list
\* before it constructs a record.
C5_NoLeakNoDoubleFree ==
    /\ ~doubleFree
    /\ DOMAIN heap = Range(m_devices)
    /\ Cardinality(Range(m_devices)) = Len(m_devices)
    /\ mgr = "dead" => DOMAIN heap = {}
    /\ Pass =>
        \A k \in 1..Len(devicesBefore) :
            \E d \in Places(dsTrace, Delete(devicesBefore[k])) :
                \A n \in 1..Len(dsTrace) : dsTrace[n][1] = "new" => d < n

\* C5 witness: a re-enumeration replaced a non-empty list by a non-empty list.
C5_Witness ==
    /\ dsOp = "initCaptureDevices"
    /\ devicesBefore # <<>>
    /\ m_devices # <<>>

\* C6: every MacCoreaudio_freeHotplug() that returns has unregistered the
\* listener, then released the class reference the fields hold, then
\* cleared the fields; the reference the fields held is released when they
\* are cleared.
C6_FreeHotplugOrder ==
    \A f \in ReturnedFrames(macTrace, "freeHotplug") :
        \E u \in At(macTrace, "uninitializeHotplug", f),
           c \in At(macTrace, "ClearFields", f) :
            /\ u < c
            /\ macTrace[c][3] # 0 =>
                /\ \E d \in At(macTrace, "DeleteGlobalRef", f) :
                        u < d /\ d < c /\ macTrace[d][3] = macTrace[c][3]
                /\ macTrace[c][3] \notin globalRefs

\* C7, as stated: two calls of MacCoreaudio_initHotplug() in a row leave
\* exactly one registration call made since the last uninitialize.
C7_TwoInitsRegisterOnce ==
    [][(macOp = "initHotplug" /\ macOp' = "initHotplug") => listeners' = 1]_vars

\* C7, amended: at most one registration exists at any time, and a call of
\* MacCoreaudio_initHotplug() that finds the target resolved resolves
\* nothing and registers nothing.
C7_InitWhileRegisteredIsNoOp ==
    /\ listeners <= 1
    /\ (macOp = "initHotplug" /\ classBefore # 0 /\ ~crashed) =>
            /\ At(macTrace, "FindClass", 1) = {}
            /\ At(macTrace, "NewGlobalRef", 1) = {}
            /\ At(macTrace, "GetStaticMethodID", 1) = {}
            /\ At(macTrace, "initializeHotplug", 1) = {}
            /\ MacCoreaudio_devicesChangedCallbackClass = classBefore
            /\ listeners = 1

\* C7 witness: MacCoreaudio_initHotplug() ran with a runtime context while
\* the target was resolved.
C7_Witness ==
    /\ macOp = "initHotplug" /\ classBefore # 0 /\ ~crashed
    /\ 1 \in PreExistingFrames(macTrace) \cup OwnedFrames(macTrace)

\* C8: relay copy-back.  After a relay that had a runtime context, the
\* first bufferLength bytes of the native buffer are the bytes of the
\* managed array as the callback left it and the bytes beyond are
\* untouched; a callback that leaves the array as handed leaves the native
\* buffer as it was.
C8_RelayCopyBack ==
    /\ (macOp = "callbackMethod" /\ ~crashed) =>
            (relay.called <=> 1 \notin FailedFrames(macTrace))
    /\ (macOp = "callbackMethod" /\ relay.called) =>
            /\ Len(relay.after) = Len(relay.before)
            /\ \A i \in 1..relay.length : ToJByte(relay.after[i]) = relay.managed[i]
            /\ \A i \in (relay.length + 1)..Len(relay.before) :
                    relay.after[i] = relay.before[i]
            /\ relay.managed = relay.passed => relay.after = relay.before

\* C8 witness: a callback overwrote a buffer of two bytes 255 with zeros.
C8_Witness ==
    /\ macOp = "callbackMethod" /\ relay.called
    /\ relay.before = <<255, 255>> /\ relay.length = 2
    /\ relay.managed = <<0, 0>>

\* C9: guard symmetry.  A frame that attached the thread itself and
\* returns has detached it exactly once, after the attach and before the
\* return; and a thread is attached after an exported function exactly when
\* it was before.
C9_GuardSymmetry ==
    /\ \A f \in OwnedFrames(macTrace) :
        At(macTrace, "Return", f) # {} =>
            /\ Cardinality(At(macTrace, "DetachCurrentThread", f)) = 1
            /\ \A a \in At(macTrace, "AttachCurrentThreadAsDaemon", f),
                  d \in At(macTrace, "DetachCurrentThread", f),
                  r \in At(macTrace, "Return", f) : a < d /\ d < r
    /\ (macOp # "none" /\ ~crashed) => attached[macThread] = attachedBefore

\* C9 witness: MacCoreaudio_freeHotplug() on a detached thread attached it
\* twice, in its log and in its own guard.
C9_Witness ==
    /\ macOp = "freeHotplug" /\ ~attachedBefore /\ ~crashed
    /\ Cardinality(OwnedFrames(macTrace)) = 2

\* a moniker that passes every filter of the loop
Qualifies(c) == ~c.vfw /\ c.name /\ c.path /\ c.init

\* the monikers the records of a list were made for
MonikersOf(list) == [k \in 1..Len(list) |-> heap[list[k]].moniker]

\* C10: after a pass that created its enumerators, the list is the
\* subsequence, in the platform's order, of the monikers that are not
\* legacy devices, whose name and path reads succeed and whose
\* initDevice() succeeds.
C10_ListIsQualifyingSubsequence ==
    (mgr = "alive" /\ enumRes = "ok") =>
        MonikersOf(m_devices)
            = SelectIdx(platform, LAMBDA i : Qualifies(platform[i]), 1)

\* C10 witness: a legacy device between two normal devices; the pass
\* lists the two normal devices.
C10_Witness ==
    /\ Pass /\ enumRes = "ok"
    /\ Len(platform) = 3
    /\ IsLegacy(platform[2])
    /\ Qualifies(platform[1]) /\ Qualifies(platform[3])
    /\ Len(m_devices) = 2

\* C11: teardown balance.  Once the manager is destroyed, every successful
\* CoInitializeEx of its constructor has been balanced by one CoUninitialize
\* of its destructor, and a manager whose CoInitializeEx failed has not
\* called CoUninitialize: no initialization of the COM library is left open
\* and none is closed that was not opened.
C11_TeardownBalance ==
    mgr = "dead" => comInits = 0

\* C12: re-enumeration is atomic for the caller.  The list a getDevices()
\* returns, also when it ran while initCaptureDevices() was in progress on
\* another thread, is one of the complete lists the manager held during the
\* call (the list as it was before a pass or as it is after it), and every
\* record in it is live.
C12_ReenumerationAtomic ==
    rPc = "returned" =>
        /\ returned \in rSeen
        /\ Range(returned) \subseteq DOMAIN heap

\* a pass that runs statement by statement builds the list of the pass
\* that runs in one step
RacePassBuildsSameList ==
    (wPc = "idle" /\ dsOp = "initCaptureDevices") => m_devices = wAfter

\* C13: enumeration unavailable.  A pass whose CoCreateInstance or
\* CreateClassEnumerator fails, or whose CreateClassEnumerator reports no
\* device, logs one error, touches no moniker and constructs no record,
\* releases after the error each handle it acquired, exactly once, deletes
\* every record of the list it found and leaves the list empty; and a
\* constructor whose CoInitializeEx fails logs the error, runs no pass and
\* leaves the list empty.
C13_EnumerationUnavailable ==
    /\ (Pass /\ enumRes \in {"noDevEnum", "noClassEnum", "empty"}) =>
            /\ m_devices = <<>>
            /\ DOMAIN heap = {}
            /\ Count(dsTrace, LogError(0)) = 1
            /\ \A i \in 1..Len(dsTrace) :
                    /\ dsTrace[i][1] \notin {"new", "push_back"}
                    /\ dsTrace[i][2] # "moniker"
                    /\ dsTrace[i][1] = "acquire" =>
                        /\ Count(dsTrace, dsTrace[i]) = 1
                        /\ Count(dsTrace, Release(dsTrace[i][2], dsTrace[i][3])) = 1
                        /\ \A e \in Places(dsTrace, LogError(0)),
                              r \in Places(dsTrace, Release(dsTrace[i][2], dsTrace[i][3])) :
                                i < e /\ e < r
            /\ \A k \in 1..Len(devicesBefore) :
                    Count(dsTrace, Delete(devicesBefore[k])) = 1
    /\ (dsOp = "constructor" /\ enumRes = "notRun") =>
            /\ m_devices = <<>>
            /\ DOMAIN heap = {}
            /\ dsTrace = <<LogError(0)>>
            /\ comInits = 0

\* C13 witness: a re-enumeration found a non-empty list and failed in
\* CreateClassEnumerator.
C13_Witness ==
    /\ dsOp = "initCaptureDevices"
    /\ enumRes = "noClassEnum"
    /\ devicesBefore # <<>>
    /\ Acquire("devEnum", 0) \in Range(dsTrace)

\* the frames of MacCoreaudio_log in which FindClass or GetStaticMethodID
\* found nothing
UnresolvedLogFrames(tr) ==
    FramesAt(tr, AtArg(tr, "Enter", "log"))
        \cap FramesAt(tr, AtArg(tr, "FindClass", "failed")
                            \cup AtArg(tr, "GetStaticMethodID", "failed"))

\* C14: a resolution failure of the log forwarder is swallowed.  A call of
\* MacCoreaudio_log that does not find the logger class or its static log
\* method invokes no managed method, detaches the thread if it attached it,
\* and returns.
C14_LogResolutionFailureSwallowed ==
    \A f \in UnresolvedLogFrames(macTrace) :
        /\ ManagedCalls(macTrace, f) = {}
        /\ At(macTrace, "Return", f) # {}
        /\ f \in OwnedFrames(macTrace) =>
                Cardinality(At(macTrace, "DetachCurrentThread", f)) = 1

\* the read of FriendlyName or of DevicePath fails on a moniker
ReadFails(c) == c.bag /\ (~c.name \/ ~c.path)

\* what a pass does after the iteration on moniker i: Next yields the next
\* moniker, or the loop ends and monikerEnum is released
NextStep(i) ==
    IF i < Len(platform) THEN Acquire("moniker", i + 1)
    ELSE Release("monikerEnum", 0)

\* C15: partial-failure logging.  In a pass that created its enumerators,
\* the iteration on a moniker whose FriendlyName or DevicePath read fails
\* logs exactly one error, constructs no record, lists none, and is followed
\* at once by the next call of Next (the next moniker, or the end of the
\* loop); the iteration on a legacy device logs no error.
C15_OneErrorPerFailedRead ==
    (Pass /\ enumRes = "ok") =>
        \A i \in 1..Len(platform) :
            /\ ReadFails(platform[i]) =>
                /\ Count(dsTrace, LogError(i)) = 1
                /\ \A k \in 1..Len(m_devices) : heap[m_devices[k]].moniker # i
                /\ \E a \in Places(dsTrace, Acquire("moniker", i)),
                      r \in Places(dsTrace, Release("moniker", i)) :
                        /\ a < r
                        /\ Places(dsTrace, LogError(i)) \subseteq a..r
                        /\ \A p \in a..r : dsTrace[p][1] \notin {"new", "push_back"}
                        /\ dsTrace[r + 1] = NextStep(i)
            /\ IsLegacy(platform[i]) => Count(dsTrace, LogError(i)) = 0

\* C15 witness: a moniker whose path read fails and a legacy device,
\* followed by a moniker that is listed.
C15_Witness ==
    /\ Pass /\ enumRes = "ok"
    /\ Len(platform) = 3
    /\ platform[1].name /\ ~platform[1].path
    /\ IsLegacy(platform[2])
    /\ Qualifies(platform[3])
    /\ MonikersOf(m_devices) = <<3>>
    /\ Count(dsTrace, LogError(1)) = 1

\* C16: every record of the device list, and of the list getDevices()
\* hands out, has a non-empty name and a non-empty path, whatever strings
\* the property reads yield.
C16_NonEmptyIdentity ==
    /\ \A k \in 1..Len(m_devices) :
            heap[m_devices[k]].name # "" /\ heap[m_devices[k]].path # ""
    /\ dsOp = "getDevices" =>
            \A k \in 1..Len(returned) :
                heap[returned[k]].name # "" /\ heap[returned[k]].path # ""

\* the places of a trace where MacCoreaudio_VM is dereferenced
Dereferences(tr) ==
    {i \in 1..Len(tr) : tr[i][1] \in {"GetEnv", "AttachCurrentThreadAsDaemon",
                                      "DetachCurrentThread", "NullDereference"}}

\* C17: the runtime handle is non-null for the whole active lifetime of the
\* library.  JNI_OnLoad stores it before its first guard is entered,
\* JNI_OnUnload clears it after its last guard is left, no guard of any
\* function called in between finds it NULL, and between the two it is
\* never NULL.
C17_RuntimeBindingNonNull ==
    /\ \A i \in 1..Len(macTrace) : macTrace[i][1] # "NullDereference"
    /\ macOp = "JNI_OnLoad" =>
            \E s \in AtArg(macTrace, "StoreVM", "vm") :
                \A d \in Dereferences(macTrace) : s < d
    /\ macOp = "JNI_OnUnload" =>
            \A s \in AtArg(macTrace, "StoreVM", "NULL") :
                \A d \in Dereferences(macTrace) : d < s
    /\ (macOp = "JNI_OnUnload" /\ ~crashed) =>
            (AtArg(macTrace, "StoreVM", "NULL") # {} /\ MacCoreaudio_VM = "NULL")
    /\ (macOp \notin {"none", "JNI_OnUnload"} /\ Dereferences(macTrace) # {}) =>
            MacCoreaudio_VM = "vm"

\* C17 witness: JNI_OnUnload went through its three guards (log, the log of
\* freeHotplug, freeHotplug) and then cleared the runtime handle.
C17_Witness ==
    /\ macOp = "JNI_OnUnload" /\ ~crashed
    /\ MacCoreaudio_VM = "NULL"
    /\ Cardinality(FramesAt(macTrace, {i \in 1..Len(macTrace) :
                                        macTrace[i][1] = "GetEnv"})) = 3

\* C18: no use after release under interleaving.  A device-change event
\* handled on the native thread while MacCoreaudio_freeHotplug or
\* JNI_OnUnload runs on the java thread never invokes the callback through a
\* class reference that has been deleted, and never dereferences
\* MacCoreaudio_VM once it is NULL.
C18_NoUseAfterRelease ==
    ~hStale /\ ~hNullDeref

\* the frames whose guard obtained a runtime context
ContextFrames(tr) == PreExistingFrames(tr) \cup OwnedFrames(tr)

\* C19: a device-change event whose guard obtained a runtime context
\* invokes the static entry point exactly once, through the resolved class,
\* when the class and the entry point are both resolved, and not at all when
\* either is NULL; in both cases the handler returns, having detached the
\* thread exactly once after the invocation if it attached it, and leaves
\* the thread attached exactly when it was before.
C19_EventInvokesOnceIfResolved ==
    (macOp = "devicesChangedCallbackMethod" /\ 1 \in ContextFrames(macTrace)) =>
        LET calls == At(macTrace, "CallStaticVoidMethod", 1)
            resolved == /\ MacCoreaudio_devicesChangedCallbackClass # 0
                        /\ MacCoreaudio_devicesChangedCallbackMethodID # 0
        IN  /\ Cardinality(calls) = IF resolved THEN 1 ELSE 0
            /\ \A c \in calls :
                    /\ macTrace[c][2] = "devicesChangedCallback"
                    /\ macTrace[c][3] = MacCoreaudio_devicesChangedCallbackClass
                    /\ macTrace[c][3] \in globalRefs
            /\ Cardinality(At(macTrace, "Return", 1)) = 1
            /\ Cardinality(At(macTrace, "DetachCurrentThread", 1))
                    = IF 1 \in OwnedFrames(macTrace) THEN 1 ELSE 0
            /\ \A d \in At(macTrace, "DetachCurrentThread", 1) :
                    /\ \A c \in calls : c < d
                    /\ \A r \in At(macTrace, "Return", 1) : d < r
            /\ attached[macThread] = attachedBefore

\* C19 witness: an event on the detached native thread, with the target
\* resolved: the handler attached the thread and made the invocation.
C19_Witness ==
    /\ macOp = "devicesChangedCallbackMethod" /\ macThread = "native"
    /\ MacCoreaudio_devicesChangedCallbackClass # 0
    /\ 1 \in OwnedFrames(macTrace)
    /\ At(macTrace, "CallStaticVoidMethod", 1) # {}

\* the global references created by the calls of MacCoreaudio_initHotplug
\* in a trace
CreatedRefs(tr) ==
    {tr[i][3] : i \in {k \in 1..Len(tr) : tr[k][1] = "NewGlobalRef"}} \ {0}

\* C20: MacCoreaudio_initHotplug holds no unaccounted reference.  After a
\* call of it (alone or from JNI_OnLoad), every global reference it created
\* is the one the class field holds, with the entry point resolved and the
\* listener registered, or is deleted; and the class field, the entry-point
\* field and the listener registration are all set or all unset.
C20_InitHoldsNoUnaccountedRef ==
    /\ macOp \in {"initHotplug", "JNI_OnLoad"} =>
            \A r \in CreatedRefs(macTrace) :
                \/ /\ r = MacCoreaudio_devicesChangedCallbackClass
                   /\ MacCoreaudio_devicesChangedCallbackMethodID # 0
                   /\ listeners = 1
                \/ r \notin globalRefs
    /\ (MacCoreaudio_devicesChangedCallbackClass # 0)
            <=> (MacCoreaudio_devicesChangedCallbackMethodID # 0)
    /\ (MacCoreaudio_devicesChangedCallbackClass # 0) <=> (listeners > 0)

\* the fields and the registration are all set or all unset (the part of
\* C20 the code keeps)
FieldsSetTogether ==
    /\ (MacCoreaudio_devicesChangedCallbackClass # 0)
            <=> (MacCoreaudio_devicesChangedCallbackMethodID # 0)
    /\ (MacCoreaudio_devicesChangedCallbackClass # 0) <=> (listeners > 0)

====
